---------------------------- MODULE Spec2Model ----------------------------
(***************************************************************************)
(* Model of the token-authorization demos of Hitachi/oss-assets:           *)
(*   - the introspection sidecar  (introspection-sidecar/app.py, check)    *)
(*   - the token-broker sidecar   (token-broker-sidecar/app.py, broker)    *)
(*   - the PKCE login flow        (03-oauth2.1/get_token.py, login_flow)   *)
(*                                                                         *)
(* Text is modelled as sequences of one-character strings, so that         *)
(* lower(), startswith(), split(), strip() and string formatting are       *)
(* computed as Python computes them.  JSON values are tagged records.      *)
(***************************************************************************)
EXTENDS Integers, Sequences, FiniteSets, TLC

VARIABLES
    cfg,        \* the sidecars' module-level configuration (os.getenv at import)
    pc,         \* pc[i]: where invocation i of a sidecar handler stands
    kind,       \* kind[i]: "gate" (check) or "broker" once invocation i started
    auth,       \* auth[i]: the inbound Authorization header of invocation i
    token,      \* token[i]: the local `token` / `incoming` of invocation i
    jwt_for_b,  \* jwt_for_b[i]: the local jwt_for_b of a broker invocation
    sent,       \* sent[i]: the outbound requests invocation i has posted, in order
    rcvd,       \* rcvd[i]: the replies invocation i got to them, in order
    resp,       \* resp[i]: the response invocation i returned
    fpc,            \* where login_flow stands
    attempt,        \* number of login_flow calls started so far
    polls,          \* the loop variable i of login_flow's wait loop (iterations done)
    auth_code,      \* the module global auth_code
    code_verifier,  \* the module global code_verifier
    verifiers,      \* the verifiers the login_flow calls so far generated, in order
    current_tokens, \* the module global current_tokens
    result,         \* what the last login_flow call returned
    listener,       \* the callback server: its socket and its thread
    handled,        \* the requests handled on the callback port since the last call
    opened,         \* the authorization URLs the last call handed to webbrowser.open
    tokenReqs,      \* the token requests the last call made
    tokenResps      \* what these token requests ended with

authzVars == <<cfg, pc, kind, auth, token, jwt_for_b, sent, rcvd, resp>>

flowVars == <<fpc, attempt, polls, auth_code, code_verifier, verifiers,
              current_tokens,
              result, listener, handled, opened, tokenReqs, tokenResps>>

vars == <<cfg, pc, kind, auth, token, jwt_for_b, sent, rcvd, resp,
          fpc, attempt, polls, auth_code, code_verifier, verifiers,
          current_tokens,
          result, listener, handled, opened, tokenReqs, tokenResps>>

-----------------------------------------------------------------------------
(* Bounds *)

\* Number of handler slots of the sidecars (requests the server can hold).
NumInv == 2

\* Number of times login_flow is called in one process.
MaxAttempts == 2

Invs == 1 .. NumInv

-----------------------------------------------------------------------------
(* Text *)

NoValue == <<"<none>">>

S_bearer_sp == <<"b", "e", "a", "r", "e", "r", " ">>
S_Bearer_sp == <<"B", "e", "a", "r", "e", "r", " ">>
S_Basic_sp  == <<"B", "a", "s", "i", "c", " ">>

\* str.lower() on the characters the inbound headers are written with.
LowerChar(c) ==
    CASE c = "B" -> "b"
      [] c = "E" -> "e"
      [] c = "A" -> "a"
      [] c = "R" -> "r"
      [] c = "T" -> "t"
      [] c = "S" -> "s"
      [] c = "I" -> "i"
      [] c = "C" -> "c"
      [] OTHER   -> c

Lower(s) == [k \in 1 .. Len(s) |-> LowerChar(s[k])]

StartsWith(s, p) == Len(s) >= Len(p) /\ SubSeq(s, 1, Len(p)) = p

\* s.split(" ", 1)[1]: what follows the first space of s.
AfterFirstSpace(s) ==
    LET k == CHOOSE j \in 1 .. Len(s) :
                 s[j] = " " /\ \A m \in 1 .. (j - 1) : s[m] # " "
    IN  SubSeq(s, k + 1, Len(s))

IsSpace(c) == c = " "

RECURSIVE LStrip(_)
LStrip(s) == IF s # <<>> /\ IsSpace(Head(s)) THEN LStrip(Tail(s)) ELSE s

RECURSIVE RStrip(_)
RStrip(s) ==
    IF s # <<>> /\ IsSpace(s[Len(s)]) THEN RStrip(SubSeq(s, 1, Len(s) - 1)) ELSE s

\* str.strip()
Strip(s) == RStrip(LStrip(s))

\* `needle in hay` for two strings.
Contains(hay, needle) ==
    \E k \in 0 .. (Len(hay) - Len(needle)) :
        SubSeq(hay, k + 1, k + Len(needle)) = needle

Digits == <<"0", "1", "2", "3", "4", "5", "6", "7", "8", "9">>

\* str(n) of a non-negative int.
RECURSIVE Decimal(_)
Decimal(n) ==
    IF n < 10 THEN <<Digits[n + 1]>>
    ELSE Decimal(n \div 10) \o <<Digits[(n % 10) + 1]>>

-----------------------------------------------------------------------------
(* JSON values, as resp.json() returns them *)

JNull    == [t |-> "null"]
JBool(b) == [t |-> "bool", b |-> b]
JNum(n)  == [t |-> "num", n |-> n]
JStr(s)  == [t |-> "str", s |-> s]
JList(n) == [t |-> "list", len |-> n]
\* f: a function from the object's keys to JSON values
JObj(f)  == [t |-> "obj", f |-> f]
EmptyObj == JObj(<<>>)

\* A response body that is not JSON.
NotJson  == [t |-> "notjson"]

IsObj(v) == v.t = "obj"
IsStr(v) == v.t = "str"

\* Python truthiness, bool(v).
Truthy(v) ==
    CASE v.t = "null" -> FALSE
      [] v.t = "bool" -> v.b
      [] v.t = "num"  -> v.n # 0
      [] v.t = "str"  -> v.s # <<>>
      [] v.t = "list" -> v.len # 0
      [] v.t = "obj"  -> DOMAIN v.f # {}

HasKey(o, k) == k \in DOMAIN o.f

\* dict.get(k, default)
Get(o, k, default) == IF HasKey(o, k) THEN o.f[k] ELSE default

\* a or b
Or(a, b) == IF Truthy(a) THEN a ELSE b

\* str(v) for the values a header is formatted from.
PyStr(v) ==
    CASE v.t = "str"  -> v.s
      [] v.t = "num"  -> Decimal(v.n)
      [] v.t = "bool" -> IF v.b THEN <<"T", "r", "u", "e">>
                                ELSE <<"F", "a", "l", "s", "e">>
      [] v.t = "null" -> <<"N", "o", "n", "e">>
      [] OTHER        -> <<"?">>

-----------------------------------------------------------------------------
(* Configuration of the two sidecars (environment variables) *)

FullCfg ==
    [ KC_INTROSPECT_URL  |-> "http://kc-a/introspect",
      KC_CLIENT_ID       |-> "gate",
      KC_CLIENT_SECRET   |-> "gate-secret",
      KC_A_TOKEN_URL     |-> "http://kc-a/token",
      KC_A_CLIENT_ID     |-> "broker-a",
      KC_A_CLIENT_SECRET |-> "secret-a",
      KC_A_SCOPE         |-> "mcp-b",
      KC_B_TOKEN_URL     |-> "http://kc-b/token",
      KC_B_CLIENT_ID     |-> "broker-b",
      KC_B_CLIENT_SECRET |-> "secret-b",
      KC_B_CLIENT_AUTH   |-> "client_secret_basic" ]

GateKeys == {"KC_INTROSPECT_URL", "KC_CLIENT_ID", "KC_CLIENT_SECRET"}

BrokerKeys == {"KC_A_TOKEN_URL", "KC_A_CLIENT_ID", "KC_A_CLIENT_SECRET",
               "KC_B_TOKEN_URL", "KC_B_CLIENT_ID", "KC_B_CLIENT_SECRET"}

\* The environments the sidecars are started in: everything set, one required
\* variable unset, the optional scope unset, or another client-auth method.
Configs ==
    {FullCfg}
    \cup {[FullCfg EXCEPT ![k] = ""] : k \in GateKeys \cup BrokerKeys}
    \cup {[FullCfg EXCEPT !.KC_A_SCOPE = ""]}
    \cup {[FullCfg EXCEPT !.KC_B_CLIENT_AUTH = m] :
              m \in {"client_secret_post", "private_key_jwt"}}

-----------------------------------------------------------------------------
(* Inbound requests *)

T1 == <<"t", "1">>
T2 == <<"t", "2">>

\* Authorization headers a caller sends; <<>> is the header being absent
\* (req.headers.get("authorization", "")).
Headers ==
    { <<>>,
      S_Basic_sp \o T1,
      <<"B", "e", "a", "r", "e", "r">>,
      <<"B", "e", "a", "r", "e", "r">> \o T1,
      S_Bearer_sp \o T1,
      S_bearer_sp \o T2,
      <<"B", "E", "A", "R", "E", "R", " ", " ">> \o T1 }

-----------------------------------------------------------------------------
(* Responses of the handlers *)

Response(status, body, headers) ==
    [status |-> status, body |-> body, headers |-> headers, raised |-> FALSE]

NoResp == [status |-> 0, body |-> "", headers |-> {}, raised |-> FALSE]

\* PlainTextResponse("", status_code=401)
Deny == Response(401, "", {})

\* PlainTextResponse("misconfigured", status_code=500)
Misconfigured == Response(500, "misconfigured", {})

\* An exception that leaves the handler: the framework answers 500.
Unhandled ==
    [status |-> 500, body |-> "Internal Server Error", headers |-> {},
     raised |-> TRUE]

HeaderNames(r) == {h[1] : h \in r.headers}

HeaderValue(r, name) == (CHOOSE h \in r.headers : h[1] = name)[2]

\* _basic_auth_header(cid, secret): "Basic " + base64(cid ":" secret)
BasicAuthHeader(cid, secret) == <<"Basic ", "b64(", cid, ":", secret, ")">>

FormContentType == <<"Content-Type", <<"application/x-www-form-urlencoded">>>>

\* Replies of an authorization server to one outbound POST: the call raises
\* (connection refused, timeout, ...) or a response with a status and a body.
Raised == [k |-> "raised"]
Reply(status, body) == [k |-> "response", status |-> status, body |-> body]

-----------------------------------------------------------------------------
(* Introspection sidecar: check *)

Alice == <<"a", "l", "i", "c", "e">>
Bob   == <<"b", "o", "b">>
Hello == <<"h", "e", "l", "l", "o">>
Mcp   == <<"m", "c", "p">>
SFalse == <<"f", "a", "l", "s", "e">>

ExpSample == JNum(1999999999)

\* Bodies the introspection endpoint answers with.
IntrospectBodies ==
    { NotJson,
      JList(0),
      JNull,
      EmptyObj,
      JObj([active |-> JBool(FALSE)]),
      JObj([active |-> JBool(FALSE), sub |-> JStr(Alice), scope |-> JStr(Hello)]),
      JObj([active |-> JNull, sub |-> JStr(Alice)]),
      JObj([active |-> JStr(SFalse), sub |-> JStr(Alice)]),
      JObj([active |-> JStr(<<>>), sub |-> JStr(Alice)]),
      JObj([active |-> JNum(0), sub |-> JStr(Alice)]),
      JObj([active |-> JNum(1), sub |-> JStr(Alice)]),
      JObj([sub |-> JStr(Alice), scope |-> JStr(Hello), exp |-> ExpSample]),
      JObj([active |-> JBool(TRUE)]),
      JObj([active |-> JBool(TRUE), sub |-> JStr(Alice), scope |-> JStr(Hello),
            exp |-> ExpSample]),
      JObj([active |-> JBool(TRUE), username |-> JStr(Bob), scope |-> JStr(Hello),
            exp |-> ExpSample, client_id |-> JStr(Mcp)]),
      JObj([active |-> JBool(TRUE), sub |-> JStr(Alice), username |-> JStr(Bob),
            exp |-> JNum(12)]),
      JObj([active |-> JBool(TRUE), sub |-> JStr(<<>>), username |-> JStr(Bob),
            scope |-> JNull, exp |-> JNum(0)]),
      JObj([active |-> JBool(TRUE), sub |-> JNull, username |-> JStr(Bob)]),
      JObj([active |-> JBool(TRUE), sub |-> JNum(7), scope |-> JStr(Hello)]) }

IntrospectStatuses == {200, 401, 500, 503}

IntrospectReplies ==
    {Raised} \cup {Reply(s, b) : s \in IntrospectStatuses, b \in IntrospectBodies}

\* auth.lower().startswith("bearer ")
IsBearer(a) == StartsWith(Lower(a), S_bearer_sp)

\* auth.split(" ", 1)[1].strip()
BearerToken(a) == Strip(AfterFirstSpace(a))

GateConfigured ==
    /\ cfg.KC_INTROSPECT_URL # ""
    /\ cfg.KC_CLIENT_ID # ""
    /\ cfg.KC_CLIENT_SECRET # ""

\* The RFC 7662 request the gate posts.
IntrospectRequest(tk) ==
    [ to      |-> "introspect",
      url     |-> cfg.KC_INTROSPECT_URL,
      headers |-> { <<"Authorization",
                      BasicAuthHeader(cfg.KC_CLIENT_ID, cfg.KC_CLIENT_SECRET)>>,
                    FormContentType },
      data    |-> { <<"token", tk>>,
                    <<"token_type_hint", <<"access_token">>>> } ]

\* not bool(body.get("active", False))
GateInactive(body) == ~Truthy(Get(body, "active", JBool(FALSE)))

\* GateAllow with username preferred to sub.
GateAllow_UsernameFirst(body) ==
    LET subject == Or(Or(Get(body, "username", JNull), Get(body, "sub", JNull)),
                      JStr(<<>>))
        scope   == Or(Get(body, "scope", JNull), JStr(<<>>))
        exp     == PyStr(Or(Get(body, "exp", JNull), JStr(<<>>)))
    IN  IF IsStr(subject) /\ IsStr(scope)
        THEN Response(200, "", { <<"X-Subject", subject.s>>,
                                 <<"X-Scope", scope.s>>,
                                 <<"X-Token-Exp", exp>> })
        ELSE Unhandled

\* The ALLOW response: the identity headers built from the introspection body.
\* A header value that is not a str makes Response(...) raise.
GateAllow(body) ==
    LET subject == Or(Or(Get(body, "sub", JNull), Get(body, "username", JNull)),
                      JStr(<<>>))
        scope   == Or(Get(body, "scope", JNull), JStr(<<>>))
        exp     == PyStr(Or(Get(body, "exp", JNull), JStr(<<>>)))
    IN  IF IsStr(subject) /\ IsStr(scope)
        THEN Response(200, "", { <<"X-Subject", subject.s>>,
                                 <<"X-Scope", scope.s>>,
                                 <<"X-Token-Exp", exp>> })
        ELSE Unhandled

\* GateDecide without the test of the status.
GateDecide_No5xx(r) ==
    IF r.k = "raised" THEN Deny
    ELSE IF r.body = NotJson THEN Deny
    ELSE IF ~IsObj(r.body) THEN Unhandled
    ELSE IF GateInactive(r.body) THEN Deny
    ELSE GateAllow(r.body)

\* What check returns once the introspection call has ended with reply r.
GateDecide(r) ==
    IF r.k = "raised" THEN Deny
    ELSE IF r.status >= 500 THEN Deny
    ELSE IF r.body = NotJson THEN Deny
    ELSE IF ~IsObj(r.body) THEN Unhandled
    ELSE IF GateInactive(r.body) THEN Deny
    ELSE GateAllow(r.body)

\* CheckEntry with the configuration tested before the header.
CheckEntry_ConfigFirst(h) ==
    IF ~GateConfigured
    THEN [pc |-> "done", token |-> NoValue, resp |-> Misconfigured, out |-> <<>>]
    ELSE IF ~IsBearer(h)
    THEN [pc |-> "done", token |-> NoValue, resp |-> Deny, out |-> <<>>]
    ELSE [pc |-> "introspect", token |-> BearerToken(h), resp |-> NoResp,
          out |-> <<IntrospectRequest(BearerToken(h))>>]

\* check up to its await (the header test, the config test, the request).
CheckEntry(h) ==
    IF ~IsBearer(h)
    THEN [pc |-> "done", token |-> NoValue, resp |-> Deny, out |-> <<>>]
    ELSE IF ~GateConfigured
    THEN [pc |-> "done", token |-> BearerToken(h), resp |-> Misconfigured,
          out |-> <<>>]
    ELSE [pc |-> "introspect", token |-> BearerToken(h), resp |-> NoResp,
          out |-> <<IntrospectRequest(BearerToken(h))>>]

-----------------------------------------------------------------------------
(* Token-broker sidecar: broker *)

A1 == <<"a", "1">>
A2 == <<"a", "2">>
B1 == <<"b", "1">>
B2 == <<"b", "2">>
SBearerWord == <<"B", "e", "a", "r", "e", "r">>
InvalidGrant == <<"invalid_grant">>
NoStore == <<"n", "o", "-", "s", "t", "o", "r", "e">>

\* Bodies a token endpoint answers with; ta, tb are the tokens it may issue.
TokenBodies(ta, tb) ==
    { NotJson,
      JList(0),
      EmptyObj,
      JObj([error |-> JStr(InvalidGrant)]),
      JObj([access_token |-> JNull]),
      JObj([access_token |-> JStr(<<>>), token_type |-> JStr(SBearerWord)]),
      JObj([access_token |-> JStr(ta)]),
      JObj([access_token |-> JStr(tb), token_type |-> JStr(SBearerWord),
            refresh_token |-> JStr(<<"r">> \o tb)]) }

TokenStatuses == {200, 400, 500}

HopAReplies ==
    {Raised} \cup {Reply(s, b) : s \in TokenStatuses, b \in TokenBodies(A1, A2)}

HopBReplies ==
    {Raised} \cup {Reply(s, b) : s \in TokenStatuses, b \in TokenBodies(B1, B2)}

\* BrokerConfigured with domain B's secret forgotten.
BrokerConfigured_NoSecretB ==
    /\ cfg.KC_A_TOKEN_URL # ""
    /\ cfg.KC_A_CLIENT_ID # ""
    /\ cfg.KC_A_CLIENT_SECRET # ""
    /\ cfg.KC_B_TOKEN_URL # ""
    /\ cfg.KC_B_CLIENT_ID # ""

BrokerConfigured ==
    /\ cfg.KC_A_TOKEN_URL # ""
    /\ cfg.KC_A_CLIENT_ID # ""
    /\ cfg.KC_A_CLIENT_SECRET # ""
    /\ cfg.KC_B_TOKEN_URL # ""
    /\ cfg.KC_B_CLIENT_ID # ""
    /\ cfg.KC_B_CLIENT_SECRET # ""

\* ClientAuthFields with the method test inverted.
ClientAuthFields_Inverted(client_id, client_secret, method) ==
    IF method # "client_secret_post"
    THEN { <<"client_id", <<client_id>>>>, <<"client_secret", <<client_secret>>>> }
    ELSE {}

\* _client_auth_fields(client_id, client_secret, method)
ClientAuthFields(client_id, client_secret, method) ==
    IF method = "client_secret_post"
    THEN { <<"client_id", <<client_id>>>>, <<"client_secret", <<client_secret>>>> }
    ELSE {}

\* Step-A: the RFC 8693 token-exchange request.
HopARequest(incoming) ==
    [ to      |-> "hopA",
      url     |-> cfg.KC_A_TOKEN_URL,
      headers |-> { <<"Authorization",
                      BasicAuthHeader(cfg.KC_A_CLIENT_ID, cfg.KC_A_CLIENT_SECRET)>>,
                    FormContentType },
      data    |-> { <<"grant_type",
                      <<"urn:ietf:params:oauth:grant-type:token-exchange">>>>,
                    <<"subject_token", incoming>>,
                    <<"subject_token_type",
                      <<"urn:ietf:params:oauth:token-type:access_token">>>> }
                  \cup (IF cfg.KC_A_SCOPE # ""
                        THEN {<<"scope", <<cfg.KC_A_SCOPE>>>>} ELSE {}) ]

\* Step-B: the JWT authorization-grant request.
HopBRequest(jwt) ==
    [ to      |-> "hopB",
      url     |-> cfg.KC_B_TOKEN_URL,
      headers |-> IF cfg.KC_B_CLIENT_AUTH = "client_secret_basic"
                  THEN { <<"Authorization",
                           BasicAuthHeader(cfg.KC_B_CLIENT_ID,
                                           cfg.KC_B_CLIENT_SECRET)>>,
                         FormContentType }
                  ELSE { FormContentType },
      data    |-> { <<"grant_type",
                      <<"urn:ietf:params:oauth:grant-type:jwt-bearer">>>>,
                    <<"assertion", PyStr(jwt)>> }
                  \cup (IF cfg.KC_B_CLIENT_AUTH = "client_secret_basic"
                        THEN {}
                        ELSE ClientAuthFields(cfg.KC_B_CLIENT_ID,
                                              cfg.KC_B_CLIENT_SECRET,
                                              "client_secret_post")) ]

\* body.get("access_token", "") of a token response
AccessToken(body) == Get(body, "access_token", JStr(<<>>))

\* HopAFails without the test of the status.
HopAFails_NoStatus(r) ==
    \/ r.k = "raised"
    \/ r.body = NotJson
    \/ ~IsObj(r.body)
    \/ ~Truthy(AccessToken(r.body))

\* Hop A ends in DENY: the post raised, the status is 5xx, json() raised,
\* body_a.get raised (all caught by the handler's except), or no token.
HopAFails(r) ==
    \/ r.k = "raised"
    \/ r.status >= 500
    \/ r.body = NotJson
    \/ ~IsObj(r.body)
    \/ ~Truthy(AccessToken(r.body))

\* HopBFails without the test of the token.
HopBFails_NoTokenTest(r) ==
    \/ r.k = "raised"
    \/ r.status >= 500
    \/ r.body = NotJson
    \/ ~IsObj(r.body)

\* The same for Hop B.
HopBFails(r) ==
    \/ r.k = "raised"
    \/ r.status >= 500
    \/ r.body = NotJson
    \/ ~IsObj(r.body)
    \/ ~Truthy(AccessToken(r.body))

\* The ALLOW response of the broker.
BrokerAllow(final_token) ==
    Response(200, "", { <<"Authorization", S_Bearer_sp \o PyStr(final_token)>>,
                        <<"Cache-Control", NoStore>> })

\* broker up to its first await.
BrokerEntry(h) ==
    IF ~IsBearer(h)
    THEN [pc |-> "done", token |-> NoValue, resp |-> Deny, out |-> <<>>]
    ELSE IF ~BrokerConfigured
    THEN [pc |-> "done", token |-> BearerToken(h), resp |-> Misconfigured,
          out |-> <<>>]
    ELSE [pc |-> "hopA", token |-> BearerToken(h), resp |-> NoResp,
          out |-> <<HopARequest(BearerToken(h))>>]

\* broker from Hop A's reply to its next await or its return.
BrokerAfterHopA(r) ==
    IF HopAFails(r)
    THEN [pc |-> "done", jwt |-> JNull, resp |-> Deny, out |-> <<>>]
    ELSE [pc |-> "hopB", jwt |-> AccessToken(r.body), resp |-> NoResp,
          out |-> <<HopBRequest(AccessToken(r.body))>>]

\* BrokerAfterHopB handing out the Hop-A token.
BrokerAfterHopB_HopAToken(incoming, jwt, r) ==
    IF HopBFails(r) THEN Deny ELSE BrokerAllow(jwt)

\* broker from Hop B's reply to its return; incoming and jwt are the locals
\* `incoming` and `jwt_for_b` the handler still holds there.
BrokerAfterHopB(incoming, jwt, r) ==
    IF HopBFails(r) THEN Deny ELSE BrokerAllow(AccessToken(r.body))

-----------------------------------------------------------------------------
(* The sidecars as state machines *)

InitAuthz ==
    /\ cfg \in Configs
    /\ pc = [i \in Invs |-> "idle"]
    /\ kind = [i \in Invs |-> "none"]
    /\ auth = [i \in Invs |-> NoValue]
    /\ token = [i \in Invs |-> NoValue]
    /\ jwt_for_b = [i \in Invs |-> JNull]
    /\ sent = [i \in Invs |-> <<>>]
    /\ rcvd = [i \in Invs |-> <<>>]
    /\ resp = [i \in Invs |-> NoResp]

\* The server takes up a request when no other one is being handled.
Admit(i) == \A j \in Invs \ {i} : pc[j] = "idle"

\* A request with one of the headers hs reaches the gate: check runs to its
\* await or to its return.
CheckOn(i, hs) ==
    /\ pc[i] = "idle"
    /\ \E h \in hs :
         LET e == CheckEntry(h) IN
           /\ auth' = [auth EXCEPT ![i] = h]
           /\ kind' = [kind EXCEPT ![i] = "gate"]
           /\ pc' = [pc EXCEPT ![i] = e.pc]
           /\ token' = [token EXCEPT ![i] = e.token]
           /\ resp' = [resp EXCEPT ![i] = e.resp]
           /\ sent' = [sent EXCEPT ![i] = sent[i] \o e.out]
    /\ UNCHANGED <<cfg, jwt_for_b, rcvd>>
    /\ UNCHANGED flowVars

\* CheckReplyOn that posts the introspection request again when the call
\* raised.
CheckReplyOn_Retry(i, rs) ==
    /\ pc[i] = "introspect"
    /\ \E r \in rs :
         /\ rcvd' = [rcvd EXCEPT ![i] = Append(rcvd[i], r)]
         /\ IF r.k = "raised"
            THEN /\ sent' = [sent EXCEPT
                               ![i] = Append(sent[i], IntrospectRequest(token[i]))]
                 /\ UNCHANGED <<pc, resp>>
            ELSE /\ resp' = [resp EXCEPT ![i] = GateDecide(r)]
                 /\ pc' = [pc EXCEPT ![i] = "done"]
                 /\ UNCHANGED sent
    /\ UNCHANGED <<cfg, kind, auth, token, jwt_for_b>>
    /\ UNCHANGED flowVars

\* The introspection call ends in one of rs and check runs to its return.
CheckReplyOn(i, rs) ==
    /\ pc[i] = "introspect"
    /\ \E r \in rs :
         /\ rcvd' = [rcvd EXCEPT ![i] = Append(rcvd[i], r)]
         /\ resp' = [resp EXCEPT ![i] = GateDecide(r)]
    /\ pc' = [pc EXCEPT ![i] = "done"]
    /\ UNCHANGED <<cfg, kind, auth, token, jwt_for_b, sent>>
    /\ UNCHANGED flowVars

\* A request with one of the headers hs reaches the broker: broker runs to
\* its first await or its return.
BrokerOn(i, hs) ==
    /\ pc[i] = "idle"
    /\ \E h \in hs :
         LET e == BrokerEntry(h) IN
           /\ auth' = [auth EXCEPT ![i] = h]
           /\ kind' = [kind EXCEPT ![i] = "broker"]
           /\ pc' = [pc EXCEPT ![i] = e.pc]
           /\ token' = [token EXCEPT ![i] = e.token]
           /\ resp' = [resp EXCEPT ![i] = e.resp]
           /\ sent' = [sent EXCEPT ![i] = sent[i] \o e.out]
    /\ UNCHANGED <<cfg, jwt_for_b, rcvd>>
    /\ UNCHANGED flowVars

\* BrokerHopAOn that keeps jwt_for_b in one place for all invocations.
BrokerHopAOn_SharedJwt(i, rs) ==
    /\ pc[i] = "hopA"
    /\ \E r \in rs :
         LET e == BrokerAfterHopA(r) IN
           /\ rcvd' = [rcvd EXCEPT ![i] = Append(rcvd[i], r)]
           /\ pc' = [pc EXCEPT ![i] = e.pc]
           /\ jwt_for_b' = [j \in Invs |-> e.jwt]
           /\ resp' = [resp EXCEPT ![i] = e.resp]
           /\ sent' = [sent EXCEPT ![i] = sent[i] \o e.out]
    /\ UNCHANGED <<cfg, kind, auth, token>>
    /\ UNCHANGED flowVars

\* Hop A's call ends in one of rs: broker denies or posts Hop B.
BrokerHopAOn(i, rs) ==
    /\ pc[i] = "hopA"
    /\ \E r \in rs :
         LET e == BrokerAfterHopA(r) IN
           /\ rcvd' = [rcvd EXCEPT ![i] = Append(rcvd[i], r)]
           /\ pc' = [pc EXCEPT ![i] = e.pc]
           /\ jwt_for_b' = [jwt_for_b EXCEPT ![i] = e.jwt]
           /\ resp' = [resp EXCEPT ![i] = e.resp]
           /\ sent' = [sent EXCEPT ![i] = sent[i] \o e.out]
    /\ UNCHANGED <<cfg, kind, auth, token>>
    /\ UNCHANGED flowVars

\* Hop B's call ends in one of rs: broker returns.
BrokerHopBOn(i, rs) ==
    /\ pc[i] = "hopB"
    /\ \E r \in rs :
         /\ rcvd' = [rcvd EXCEPT ![i] = Append(rcvd[i], r)]
         /\ resp' = [resp EXCEPT ![i] =
                       BrokerAfterHopB(token[i], jwt_for_b[i], r)]
    /\ pc' = [pc EXCEPT ![i] = "done"]
    /\ UNCHANGED <<cfg, kind, auth, token, jwt_for_b, sent>>
    /\ UNCHANGED flowVars

\* The handlers with the server taking up one request at a time, over all
\* the headers and replies of the model.
Check(i) == Admit(i) /\ CheckOn(i, Headers)

CheckReply(i) == CheckReplyOn(i, IntrospectReplies)

Broker(i) == Admit(i) /\ BrokerOn(i, Headers)

BrokerHopA(i) == BrokerHopAOn(i, HopAReplies)

BrokerHopB(i) == BrokerHopBOn(i, HopBReplies)

\* The response has gone out; the handler's locals are dropped.
Return(i) ==
    /\ pc[i] = "done"
    /\ pc' = [pc EXCEPT ![i] = "idle"]
    /\ kind' = [kind EXCEPT ![i] = "none"]
    /\ auth' = [auth EXCEPT ![i] = NoValue]
    /\ token' = [token EXCEPT ![i] = NoValue]
    /\ jwt_for_b' = [jwt_for_b EXCEPT ![i] = JNull]
    /\ sent' = [sent EXCEPT ![i] = <<>>]
    /\ rcvd' = [rcvd EXCEPT ![i] = <<>>]
    /\ resp' = [resp EXCEPT ![i] = NoResp]
    /\ UNCHANGED cfg
    /\ UNCHANGED flowVars

-----------------------------------------------------------------------------
(* The PKCE login flow: login_flow, start_callback_server, CallbackHandler *)

\* range(120)
WaitSeconds == 120

None == <<"<None>">>

KEYCLOAK_CLIENT_ID == <<"mcp">>
KEYCLOAK_CLIENT_SECRET == <<"<secret>">>
REDIRECT_URI == <<"http://localhost:8888/callback">>
REQUESTED_SCOPE == <<"hello">>

\* The state parameter login_flow puts into the authorization URL.
StateSent == <<"random_state">>

\* Values secrets.token_bytes(32) may yield, base64url-encoded without padding.
Verifiers == { <<"v", "1">>, <<"v", "2">>, <<"v", "3">> }

\* What secrets.token_bytes(32) may yield after it has yielded the values of
\* earlier: 32 bytes of the system's random source do not repeat.
Unused(earlier) == Verifiers \ {earlier[k] : k \in 1 .. Len(earlier)}

\* base64url(sha256(verifier)) without padding; the digest is kept symbolic.
S256(verifier) == <<"sha256(">> \o verifier \o <<")">>

\* auth_params of the authorization URL
AuthParams(verifier) ==
    [ client_id             |-> KEYCLOAK_CLIENT_ID,
      redirect_uri          |-> REDIRECT_URI,
      response_type         |-> <<"code">>,
      scope                 |-> REQUESTED_SCOPE,
      state                 |-> StateSent,
      code_challenge        |-> S256(verifier),
      code_challenge_method |-> <<"S256">> ]

ABC == <<"A", "B", "C">>
XYZ == <<"X", "Y", "Z">>
Evil == <<"e", "v", "i", "l">>
AccessDenied == <<"access_denied">>

\* An HTTP request to localhost:8888; a query field that is missing or blank
\* is <<>> (parse_qs drops blank values).
Request(method, path, code, error, state) ==
    [method |-> method, path |-> path, code |-> code, error |-> error,
     state |-> state]

\* Requests that reach the callback port: the redirect of the authorization
\* server with a code or an error, and requests of any other local client.
Requests ==
    { Request("GET", "/callback", ABC, <<>>, StateSent),
      Request("GET", "/callback", ABC, <<>>, Evil),
      Request("GET", "/callback", XYZ, <<>>, <<>>),
      Request("GET", "/callback", <<>>, AccessDenied, StateSent),
      Request("GET", "/callback", <<>>, <<>>, StateSent),
      Request("GET", "/favicon.ico", <<>>, <<>>, <<>>),
      Request("GET", "/other", XYZ, <<>>, StateSent),
      Request("POST", "/callback", ABC, <<>>, StateSent) }

\* The status CallbackHandler answers request q with: do_GET answers 200 for a
\* code, 400 for an error and sends nothing otherwise (0); another method has
\* no handler and the base class answers 501.
CallbackStatus(q) ==
    IF q.method # "GET" THEN 501
    ELSE IF q.code # <<>> THEN 200
    ELSE IF q.error # <<>> THEN 400
    ELSE 0

\* CallbackCode that also stores the error of an error callback.
CallbackCode_ErrorStored(q, old) ==
    IF q.method = "GET" /\ q.code # <<>> THEN q.code
    ELSE IF q.method = "GET" /\ q.error # <<>> THEN q.error
    ELSE old

\* The value of auth_code after do_GET has run for request q.
CallbackCode(q, old) ==
    IF q.method = "GET" /\ q.code # <<>> THEN q.code ELSE old

\* if auth_code: (None is falsy, so is the empty string)
HaveCode(c) == c # None /\ c # <<>>

AT1 == <<"a", "t", "1">>
RT1 == <<"r", "t", "1">>

\* What keycloak_openid.token(...) ends with: it raises (a transport failure,
\* an error status of the token endpoint) or returns the decoded body of a
\* success status, the raw bytes when the body is not JSON.
TokenOutcomes ==
    { Raised,
      Reply(200, NotJson),
      Reply(200, JList(0)),
      Reply(200, EmptyObj),
      Reply(200, JObj([error |-> JStr(InvalidGrant)])),
      Reply(200, JObj([access_token |-> JStr(AT1)])),
      Reply(200, JObj([access_token |-> JStr(AT1), refresh_token |-> JStr(RT1),
                       token_type |-> JStr(SBearerWord)])) }

\* The token request of login_flow.
TokenRequest(code, verifier) ==
    [ grant_type    |-> <<"authorization_code">>,
      code          |-> code,
      redirect_uri  |-> REDIRECT_URI,
      code_verifier |-> verifier,
      authorization |-> BasicAuthHeader(KEYCLOAK_CLIENT_ID[1],
                                        KEYCLOAK_CLIENT_SECRET[1]) ]

NoTokens == [access_token |-> JNull, refresh_token |-> JNull]

\* The try block of login_flow once token() has ended with outcome o:
\* the tokens stored and the value returned.  token_response.get raises for a
\* response that is no dict, and the except clause returns False.
ExchangeEnd(o, tokens) ==
    IF o.k = "raised" THEN [tokens |-> tokens, result |-> "False"]
    ELSE IF ~IsObj(o.body) THEN [tokens |-> tokens, result |-> "False"]
    ELSE [ tokens |-> [access_token  |-> Get(o.body, "access_token", JNull),
                       refresh_token |-> Get(o.body, "refresh_token", JNull)],
           result |-> "True" ]

InitFlow ==
    /\ fpc = "idle"
    /\ attempt = 0
    /\ polls = 0
    /\ auth_code = None
    /\ code_verifier = None
    /\ verifiers = <<>>
    /\ current_tokens = NoTokens
    /\ result = "none"
    /\ listener = "none"
    /\ handled = <<>>
    /\ opened = <<>>
    /\ tokenReqs = <<>>
    /\ tokenResps = <<>>

\* LoginStart that generates a verifier only when none is stored yet.
LoginStart_KeepVerifier ==
    /\ fpc \in {"idle", "returned"}
    /\ attempt < MaxAttempts
    /\ attempt' = attempt + 1
    /\ auth_code' = None
    /\ polls' = 0
    /\ \E v \in Unused(verifiers) :
         /\ code_verifier' = IF code_verifier = None THEN v ELSE code_verifier
         /\ verifiers' = Append(verifiers, code_verifier')
    /\ IF listener = "none"
       THEN /\ listener' = "listening"
            /\ fpc' = "sleeping"
            /\ result' = "none"
       ELSE /\ listener' = listener
            /\ fpc' = "returned"
            /\ result' = "raised"
    /\ handled' = <<>>
    /\ opened' = <<>>
    /\ tokenReqs' = <<>>
    /\ tokenResps' = <<>>
    /\ UNCHANGED current_tokens
    /\ UNCHANGED authzVars

\* LoginStart that goes on without the callback server having been bound.
LoginStart_Unbound ==
    /\ fpc \in {"idle", "returned"}
    /\ attempt < MaxAttempts
    /\ attempt' = attempt + 1
    /\ auth_code' = None
    /\ polls' = 0
    /\ \E v \in Unused(verifiers) :
         /\ code_verifier' = v
         /\ verifiers' = Append(verifiers, v)
    /\ listener' = listener
    /\ fpc' = "sleeping"
    /\ result' = "none"
    /\ handled' = <<>>
    /\ opened' = <<>>
    /\ tokenReqs' = <<>>
    /\ tokenResps' = <<>>
    /\ UNCHANGED current_tokens
    /\ UNCHANGED authzVars

\* login_flow is called and runs to its first await: it clears auth_code,
\* draws the verifier and starts the callback server.  HTTPServer(...) binds
\* and listens in its constructor; it raises OSError while an earlier
\* server still holds the port, and the exception leaves login_flow.
LoginStart ==
    /\ fpc \in {"idle", "returned"}
    /\ attempt < MaxAttempts
    /\ attempt' = attempt + 1
    /\ auth_code' = None
    /\ polls' = 0
    /\ \E v \in Unused(verifiers) :
         /\ code_verifier' = v
         /\ verifiers' = Append(verifiers, v)
    /\ IF listener = "none"
       THEN /\ listener' = "listening"
            /\ fpc' = "sleeping"
            /\ result' = "none"
       ELSE /\ listener' = listener
            /\ fpc' = "returned"
            /\ result' = "raised"
    /\ handled' = <<>>
    /\ opened' = <<>>
    /\ tokenReqs' = <<>>
    /\ tokenResps' = <<>>
    /\ UNCHANGED current_tokens
    /\ UNCHANGED authzVars

\* After asyncio.sleep(1): webbrowser.open(auth_url).
OpenBrowser ==
    /\ fpc = "sleeping"
    /\ opened' = Append(opened, AuthParams(code_verifier))
    /\ fpc' = "polling"
    /\ UNCHANGED <<attempt, polls, auth_code, code_verifier, verifiers,
                   current_tokens, result, listener, handled, tokenReqs,
                   tokenResps>>
    /\ UNCHANGED authzVars

\* One iteration of the wait loop: sleep one second, then test auth_code.
Poll ==
    /\ fpc = "polling"
    /\ IF HaveCode(auth_code)
       THEN fpc' = "waited" /\ polls' = polls
       ELSE /\ polls' = polls + 1
            /\ fpc' = IF polls + 1 = WaitSeconds THEN "waited" ELSE "polling"
    /\ UNCHANGED <<attempt, auth_code, code_verifier, verifiers,
                   current_tokens, result, listener, handled, opened,
                   tokenReqs, tokenResps>>
    /\ UNCHANGED authzVars

\* The server object dies with login_flow's local once its thread has ended.
ListenerAfterReturn(l) == IF l = "served" THEN "none" ELSE l

\* After the loop: return False without a code, else call the token endpoint.
AfterWait ==
    /\ fpc = "waited"
    /\ IF ~HaveCode(auth_code)
       THEN /\ result' = "False"
            /\ fpc' = "returned"
            /\ polls' = 0
            /\ listener' = ListenerAfterReturn(listener)
            /\ tokenReqs' = tokenReqs
       ELSE /\ tokenReqs' = Append(tokenReqs,
                                   TokenRequest(auth_code, code_verifier))
            /\ fpc' = "exchanging"
            /\ polls' = 0
            /\ UNCHANGED <<result, listener>>
    /\ UNCHANGED <<attempt, auth_code, code_verifier, verifiers,
                   current_tokens, handled, opened, tokenResps>>
    /\ UNCHANGED authzVars

\* Exchange that goes back to submit the code again when the call raised.
Exchange_Retry ==
    /\ fpc = "exchanging"
    /\ \E o \in TokenOutcomes :
         LET e == ExchangeEnd(o, current_tokens) IN
           /\ current_tokens' = e.tokens
           /\ tokenResps' = Append(tokenResps, o)
           /\ IF o.k = "raised"
              THEN /\ fpc' = "waited"
                   /\ UNCHANGED <<result, listener>>
              ELSE /\ fpc' = "returned"
                   /\ result' = e.result
                   /\ listener' = ListenerAfterReturn(listener)
    /\ UNCHANGED <<attempt, polls, auth_code, code_verifier, verifiers,
                   handled, opened, tokenReqs>>
    /\ UNCHANGED authzVars

\* keycloak_openid.token(...) ends and login_flow returns.
Exchange ==
    /\ fpc = "exchanging"
    /\ \E o \in TokenOutcomes :
         LET e == ExchangeEnd(o, current_tokens) IN
           /\ current_tokens' = e.tokens
           /\ result' = e.result
           /\ tokenResps' = Append(tokenResps, o)
    /\ fpc' = "returned"
    /\ listener' = ListenerAfterReturn(listener)
    /\ UNCHANGED <<attempt, polls, auth_code, code_verifier, verifiers,
                   handled, opened, tokenReqs>>
    /\ UNCHANGED authzVars

\* The server thread: handle_request() takes one request, runs the handler
\* and ends.  The socket stays open as long as login_flow holds the server.
HandleRequest ==
    /\ listener = "listening"
    /\ \E q \in Requests :
         /\ auth_code' = CallbackCode(q, auth_code)
         /\ handled' = Append(handled, [req |-> q, status |-> CallbackStatus(q)])
    /\ listener' = IF fpc = "returned" THEN "none" ELSE "served"
    /\ UNCHANGED <<fpc, attempt, polls, code_verifier, verifiers,
                   current_tokens, result, opened, tokenReqs, tokenResps>>
    /\ UNCHANGED authzVars

-----------------------------------------------------------------------------
(* Specifications *)

Init == InitAuthz /\ InitFlow

Next ==
    \E i \in Invs :
        \/ Check(i)
        \/ CheckReply(i)
        \/ Broker(i)
        \/ BrokerHopA(i)
        \/ BrokerHopB(i)
        \/ Return(i)

\* The two sidecars.
Spec == Init /\ [][Next]_vars

InitLogin ==
    /\ InitAuthz
    /\ cfg = FullCfg
    /\ InitFlow

NextFlow ==
    \/ LoginStart
    \/ OpenBrowser
    \/ Poll
    \/ AfterWait
    \/ Exchange
    \/ HandleRequest

\* The login flow.
SpecFlow == InitLogin /\ [][NextFlow]_vars

-----------------------------------------------------------------------------
(* Vocabulary of the properties *)

\* The header names the Bearer scheme: its first word, whatever its case, is
\* "bearer" and a space follows it.
UsesBearerScheme(h) ==
    \E k \in 1 .. Len(h) :
        h[k] = " " /\ Lower(SubSeq(h, 1, k - 1)) = <<"b", "e", "a", "r", "e", "r">>

GateDone(i) == kind[i] = "gate" /\ pc[i] = "done"
BrokerDone(i) == kind[i] = "broker" /\ pc[i] = "done"

\* The reply is a response whose body is a JSON object holding a non-empty
\* string access_token.
CarriesToken(r) ==
    /\ r.k = "response"
    /\ IsObj(r.body)
    /\ HasKey(r.body, "access_token")
    /\ IsStr(r.body.f["access_token"])
    /\ r.body.f["access_token"].s # <<>>

TokenOf(r) == r.body.f["access_token"].s

\* A hop completed: a response below 500 carrying a token.
HopCompleted(r) == CarriesToken(r) /\ r.status < 500

\* The text s shows up in some header value or in the body of response r.
Exposes(r, s) == \E h \in r.headers : Contains(h[2], s)

-----------------------------------------------------------------------------
(* C1 *)

\* C1: in check, for a request that carries a Bearer header while the
\* configuration is complete, an introspection call that raises (transport
\* error, timeout), answers with a status >= 500, or answers with a body that
\* is not JSON ends in DENY: status 401, empty body, never 200.
C1_FailClosed ==
    \A i \in Invs :
        ( /\ GateDone(i)
          /\ UsesBearerScheme(auth[i])
          /\ \A k \in GateKeys : cfg[k] # ""
          /\ Len(rcvd[i]) = 1
          /\ \/ rcvd[i][1].k = "raised"
             \/ rcvd[i][1].status >= 500
             \/ rcvd[i][1].body = NotJson )
        => /\ resp[i].status = 401
           /\ resp[i].body = ""
           /\ resp[i].headers = {}
           /\ ~resp[i].raised

\* A 5xx reply whose body says the token is active has been answered DENY.
C1_Witness ==
    \E i \in Invs :
        /\ GateDone(i)
        /\ Len(rcvd[i]) = 1
        /\ rcvd[i][1].k = "response"
        /\ rcvd[i][1].status = 503
        /\ IsObj(rcvd[i][1].body)
        /\ HasKey(rcvd[i][1].body, "active")
        /\ rcvd[i][1].body.f["active"] = JBool(TRUE)
        /\ resp[i].status = 401

-----------------------------------------------------------------------------
(* C2 *)

\* C2: check answers ALLOW (200) only when the introspection body's `active`
\* is exactly the boolean true; any other value (false, absent, null, a
\* string such as "false", a number) is DENY (401).
C2_AllowOnlyActiveTrue ==
    \A i \in Invs :
        (GateDone(i) /\ Len(rcvd[i]) = 1 /\ rcvd[i][1].k = "response"
         /\ IsObj(rcvd[i][1].body) /\ rcvd[i][1].status < 500)
        => IF Get(rcvd[i][1].body, "active", JNull) = JBool(TRUE)
           THEN TRUE
           ELSE resp[i].status = 401

-----------------------------------------------------------------------------
(* C3 *)

\* C3: broker answers ALLOW only after Hop A and then Hop B have completed,
\* each with a status below 500 and a non-empty access_token; ALLOW is status
\* 200 with exactly Authorization: Bearer <Hop B token> and Cache-Control:
\* no-store; and whatever the outcome, neither the incoming token nor the
\* Hop-A token shows up in the response.  (The tokens domain B issues are
\* other strings than the incoming token and the tokens domain A issues.)
C3_AllowNeedsBothHops ==
    \A i \in Invs :
        kind[i] = "broker" =>
        /\ resp[i].status = 200 =>
             /\ pc[i] = "done"
             /\ Len(sent[i]) = 2 /\ Len(rcvd[i]) = 2
             /\ sent[i][1].to = "hopA" /\ sent[i][2].to = "hopB"
             /\ HopCompleted(rcvd[i][1]) /\ HopCompleted(rcvd[i][2])
             /\ <<"assertion", TokenOf(rcvd[i][1])>> \in sent[i][2].data
             /\ resp[i].body = ""
             /\ resp[i].headers =
                   { <<"Authorization", S_Bearer_sp \o TokenOf(rcvd[i][2])>>,
                     <<"Cache-Control", NoStore>> }
        /\ token[i] # NoValue => ~Exposes(resp[i], token[i])
        /\ (Len(rcvd[i]) >= 1 /\ CarriesToken(rcvd[i][1]))
             => ~Exposes(resp[i], TokenOf(rcvd[i][1]))

\* The broker has answered ALLOW with Hop B's token.
C3_Witness ==
    \E i \in Invs :
        /\ BrokerDone(i)
        /\ resp[i].status = 200
        /\ Len(rcvd[i]) = 2
        /\ TokenOf(rcvd[i][1]) = A1
        /\ TokenOf(rcvd[i][2]) = B2
        /\ token[i] = T2

-----------------------------------------------------------------------------
(* C4 *)

\* C4: when Hop A's response has a status >= 500 or carries no non-empty
\* access_token (any 4xx error body included), broker never posts the Hop B
\* request and answers DENY (401).
C4_NoHopBAfterFailedHopA ==
    \A i \in Invs :
        ( /\ kind[i] = "broker"
          /\ Len(rcvd[i]) >= 1
          /\ rcvd[i][1].k = "response"
          /\ (rcvd[i][1].status >= 500 \/ ~CarriesToken(rcvd[i][1])) )
        => /\ pc[i] = "done"
           /\ resp[i] = Deny
           /\ \A k \in 1 .. Len(sent[i]) : sent[i][k].to # "hopB"

\* Hop A answered 400 with an error body and the broker denied after one call.
C4_Witness ==
    \E i \in Invs :
        /\ BrokerDone(i)
        /\ Len(rcvd[i]) = 1
        /\ rcvd[i][1] = Reply(400, JObj([error |-> JStr(InvalidGrant)]))
        /\ Len(sent[i]) = 1
        /\ resp[i].status = 401

-----------------------------------------------------------------------------
(* C5 *)

\* C5: when Hop A succeeded and Hop B fails (the call raises or times out,
\* status >= 500, a body that is not JSON, or no access_token), broker answers
\* DENY: 401, empty body, no Authorization header; the Hop-A token is not
\* exposed to the caller.
C5_HopBFailureDenies ==
    \A i \in Invs :
        ( /\ BrokerDone(i)
          /\ Len(rcvd[i]) = 2
          /\ \/ rcvd[i][2].k = "raised"
             \/ rcvd[i][2].status >= 500
             \/ rcvd[i][2].body = NotJson
             \/ ~CarriesToken(rcvd[i][2]) )
        => /\ resp[i].status = 401
           /\ resp[i].body = ""
           /\ "Authorization" \notin HeaderNames(resp[i])
           /\ ~Exposes(resp[i], TokenOf(rcvd[i][1]))

\* Hop A issued a token, Hop B answered 500 though with a token in the body,
\* and the broker denied.
C5_Witness ==
    \E i \in Invs :
        /\ BrokerDone(i)
        /\ Len(rcvd[i]) = 2
        /\ HopCompleted(rcvd[i][1])
        /\ rcvd[i][2].k = "response"
        /\ rcvd[i][2].status = 500
        /\ CarriesToken(rcvd[i][2])
        /\ resp[i] = Deny

-----------------------------------------------------------------------------
(* C8 *)

\* C8: in the gate and in the broker, a request whose Authorization header is
\* absent or does not use the Bearer scheme is answered DENY (401, empty
\* body), whatever the configuration is (the header is tested first), and
\* no request goes out to an authorization server.
C8_NonBearerDenied ==
    \A i \in Invs :
        (kind[i] \in {"gate", "broker"} /\ ~UsesBearerScheme(auth[i]))
        => /\ pc[i] = "done"
           /\ resp[i].status = 401
           /\ resp[i].body = ""
           /\ ~resp[i].raised
           /\ sent[i] = <<>>
           /\ rcvd[i] = <<>>

\* A gate that is not configured has denied a Basic header.
C8_Witness ==
    \E i \in Invs :
        /\ GateDone(i)
        /\ auth[i] = S_Basic_sp \o T1
        /\ cfg.KC_INTROSPECT_URL = ""
        /\ resp[i] = Deny

-----------------------------------------------------------------------------
(* C9 *)

\* C9: in the gate and in the broker, a request with a Bearer header while a
\* required endpoint or client credential is unset gets MISCONFIGURED, status
\* 500 with body "misconfigured", never 401 and never 200, and no request
\* goes out.
C9_Misconfigured ==
    \A i \in Invs :
        ( /\ UsesBearerScheme(auth[i])
          /\ \/ kind[i] = "gate" /\ \E k \in GateKeys : cfg[k] = ""
             \/ kind[i] = "broker" /\ \E k \in BrokerKeys : cfg[k] = "" )
        => /\ pc[i] = "done"
           /\ resp[i].status = 500
           /\ resp[i].body = "misconfigured"
           /\ ~resp[i].raised
           /\ sent[i] = <<>>
           /\ rcvd[i] = <<>>

\* A broker without domain B's client secret has answered a Bearer request.
C9_Witness ==
    \E i \in Invs :
        /\ BrokerDone(i)
        /\ auth[i] = S_bearer_sp \o T2
        /\ cfg.KC_B_CLIENT_SECRET = ""
        /\ resp[i] = Misconfigured

-----------------------------------------------------------------------------
(* C10 *)

\* Field k of the body is missing or null.
FieldAbsent(body, k) == ~HasKey(body, k) \/ body.f[k] = JNull

\* The text of field k of the body; empty when the field is absent.
FieldText(body, k) == IF FieldAbsent(body, k) THEN <<>> ELSE PyStr(body.f[k])

\* Field k of the body is a non-empty string.
FieldNonEmpty(body, k) ==
    HasKey(body, k) /\ IsStr(body.f[k]) /\ body.f[k].s # <<>>

IdentityKeys == {"sub", "username", "scope", "exp"}

\* The response holds neither the inbound token nor a field of the body
\* other than the identity fields.
C10_NothingElse(i, body) ==
    /\ ~Exposes(resp[i], token[i])
    /\ \A k \in DOMAIN body.f \ IdentityKeys :
           (IsStr(body.f[k]) /\ body.f[k].s # <<>>)
           => ~Exposes(resp[i], body.f[k].s)

\* C10 as claimed: on every gate ALLOW the response carries exactly X-Subject,
\* X-Scope and X-Token-Exp, equal to the body's sub (username when sub is
\* absent), scope and exp; nothing else of the body and not the token.
C10_IdentityHeadersAsClaimed ==
    \A i \in Invs :
        (GateDone(i) /\ resp[i].status = 200) =>
        LET body == rcvd[i][1].body IN
        /\ resp[i].headers =
             { <<"X-Subject", IF FieldAbsent(body, "sub")
                              THEN FieldText(body, "username")
                              ELSE FieldText(body, "sub")>>,
               <<"X-Scope", FieldText(body, "scope")>>,
               <<"X-Token-Exp", FieldText(body, "exp")>> }
        /\ C10_NothingElse(i, body)

\* C10 amended: on every gate ALLOW the response carries exactly X-Subject,
\* X-Scope and X-Token-Exp; X-Subject is sub when sub is a non-empty string,
\* else username when that is a non-empty string, else empty; X-Scope is scope
\* or empty; X-Token-Exp is the text of exp, empty when exp is absent, null
\* or 0; nothing else of the body and not the inbound token is included.
C10_IdentityHeaders ==
    \A i \in Invs :
        (GateDone(i) /\ resp[i].status = 200) =>
        LET body == rcvd[i][1].body IN
        /\ resp[i].body = ""
        /\ resp[i].headers =
             { <<"X-Subject", IF FieldNonEmpty(body, "sub") THEN body.f["sub"].s
                              ELSE IF FieldNonEmpty(body, "username")
                              THEN body.f["username"].s
                              ELSE <<>> >>,
               <<"X-Scope", IF FieldNonEmpty(body, "scope")
                            THEN body.f["scope"].s ELSE <<>> >>,
               <<"X-Token-Exp", IF FieldAbsent(body, "exp")
                                   \/ body.f["exp"] = JNum(0)
                                THEN <<>> ELSE PyStr(body.f["exp"]) >> }
        /\ C10_NothingElse(i, body)

\* ALLOW for a body with sub and username: X-Subject is sub.
C10_Witness ==
    \E i \in Invs :
        /\ GateDone(i)
        /\ resp[i].status = 200
        /\ FieldNonEmpty(rcvd[i][1].body, "sub")
        /\ FieldNonEmpty(rcvd[i][1].body, "username")
        /\ <<"X-Subject", Alice>> \in resp[i].headers
        /\ <<"X-Token-Exp", <<"1", "2">>>> \in resp[i].headers

-----------------------------------------------------------------------------
(* C6 *)

\* C6: login_flow goes on from awaiting the callback to the token exchange only
\* if the state returned on the callback equals the state sent in the
\* authorization URL; with a mismatching or missing state it ends FAILED and
\* makes no token request.
C6_StateValidated ==
    tokenReqs # <<>> =>
        /\ handled # <<>>
        /\ opened # <<>>
        /\ handled[Len(handled)].req.state = opened[Len(opened)].state

-----------------------------------------------------------------------------
(* C7 *)

\* C7: login_flow returns True only if the token response holds an
\* access_token; an error of the authorization server, a malformed token
\* response (one without access_token included) or a transport failure makes
\* it return False.
C7_CompleteNeedsAccessToken ==
    (fpc = "returned" /\ tokenResps # <<>>) =>
        LET o == tokenResps[Len(tokenResps)] IN
        IF o.k = "response" /\ IsObj(o.body) /\ HasKey(o.body, "access_token")
        THEN TRUE
        ELSE result = "False"

-----------------------------------------------------------------------------
(* C11 *)

FieldNames(req) == {d[1] : d \in req.data}

RequestHeaderNames(req) == {h[1] : h \in req.headers}

-----------------------------------------------------------------------------
(* C12 *)

\* The callback server of this call was started (the call did not end in the
\* OSError of a port still held).
Listening == attempt > 0 /\ result # "raised"

\* login_flow leaves the state reached after its wait loop.
LeavesWait == fpc = "waited" /\ fpc' # "waited"

\* C12 as claimed: when no callback has arrived within the 120 one-second
\* polls (or only an error callback has), login_flow returns False and the
\* token endpoint is not called in that attempt.
C12_TimeoutFailsAsClaimed ==
    [][ (LeavesWait /\ polls = WaitSeconds)
        => (fpc' = "returned" /\ result' = "False" /\ tokenReqs' = <<>>) ]_vars

\* C12 amended: when the callback delivers an explicit error and no code, or
\* when no code has arrived by the time login_flow tests auth_code after its
\* 120 one-second polls, login_flow returns False and the token endpoint is
\* not called in that attempt.
C12_NoCodeFails ==
    /\ [] ( ( /\ Listening
              /\ handled # <<>>
              /\ handled[1].req.error # <<>>
              /\ handled[1].req.code = <<>> )
            => /\ tokenReqs = <<>>
               /\ fpc = "returned" => result = "False" )
    /\ [][ (LeavesWait /\ ~HaveCode(auth_code))
           => (fpc' = "returned" /\ result' = "False" /\ tokenReqs' = <<>>) ]_vars

\* An error callback was handled, the 120 polls went by and login_flow
\* returned False without a token request.
C12_Witness ==
    /\ Listening
    /\ fpc = "returned"
    /\ handled # <<>>
    /\ handled[1].req.error = AccessDenied
    /\ handled[1].status = 400
    /\ result = "False"
    /\ tokenReqs = <<>>

-----------------------------------------------------------------------------
(* C13 *)

\* The path of REDIRECT_URI.
RedirectPath == "/callback"

\* C13: the callback listener accepts exactly one GET request matching the
\* redirect path, answers 200 for a code and 400 for an error, and then shuts
\* down: the request that used up the listener is a GET on the redirect path
\* carrying a code or an error, no second request is handled, and the stored
\* authorization code comes from that request.
C13_OneMatchingGet ==
    /\ Len(handled) <= 1
    /\ \A k \in 1 .. Len(handled) :
         LET q == handled[k].req IN
         /\ q.method = "GET"
         /\ q.path = RedirectPath
         /\ \/ q.code # <<>> /\ handled[k].status = 200
            \/ q.code = <<>> /\ q.error # <<>> /\ handled[k].status = 400
    /\ HaveCode(auth_code) =>
         \E k \in 1 .. Len(handled) :
            /\ handled[k].req.path = RedirectPath
            /\ handled[k].req.code = auth_code

-----------------------------------------------------------------------------
(* C14 *)

\* C14: within one login_flow attempt the authorization code is submitted to
\* the token endpoint at most once, whether that request succeeded or failed,
\* and the request carries the code that was received; a new attempt starts
\* with the stored code cleared and no request issued.
C14_ExchangedAtMostOnce ==
    /\ [] ( /\ Len(tokenReqs) <= 1
            /\ Len(tokenResps) <= Len(tokenReqs)
            /\ fpc = "returned" /\ result \in {"True", "False"}
                 => Len(tokenResps) = Len(tokenReqs) )
    /\ [][ tokenReqs' # tokenReqs /\ attempt' = attempt
           => /\ HaveCode(auth_code)
              /\ tokenReqs' = <<TokenRequest(auth_code, code_verifier)>> ]_vars
    /\ [][ attempt' # attempt
           => auth_code' = None /\ tokenReqs' = <<>> ]_vars

\* A second attempt, started with the code cleared, has submitted the code it
\* received once, the token request failed, and login_flow returned.
C14_Witness ==
    /\ attempt = 2
    /\ fpc = "returned"
    /\ tokenReqs = <<TokenRequest(ABC, code_verifier)>>
    /\ tokenResps = <<Raised>>
    /\ result = "False"

-----------------------------------------------------------------------------
(* C15 *)

\* login_flow is between the start of the callback server and its return.
Running == fpc \in {"sleeping", "polling", "waited", "exchanging"}

\* Request q is the redirect of the authorization server: a GET on the
\* redirect path that carries a code or an error.
IsRedirect(q) ==
    q.method = "GET" /\ q.path = RedirectPath /\ (q.code # <<>> \/ q.error # <<>>)

-----------------------------------------------------------------------------
(* C16 *)

\* C16: every login_flow attempt generates a verifier that no earlier attempt
\* used, and the code_verifier of that attempt's token request is the verifier
\* whose S256 challenge is in that attempt's authorization URL.
C16_FreshVerifierBound ==
    /\ Len(verifiers) = attempt
    /\ \A j, k \in 1 .. Len(verifiers) : j # k => verifiers[j] # verifiers[k]
    /\ attempt > 0 => code_verifier = verifiers[attempt]
    /\ \A k \in 1 .. Len(opened) :
         /\ opened[k].code_challenge = S256(verifiers[attempt])
         /\ opened[k].code_challenge_method = <<"S256">>
    /\ \A k \in 1 .. Len(tokenReqs) :
         /\ tokenReqs[k].code_verifier = verifiers[attempt]
         /\ opened # <<>>
         /\ opened[1].code_challenge = S256(tokenReqs[k].code_verifier)

\* A second attempt has sent its token request, with a verifier other than
\* the first attempt's and matching the challenge of its own URL.
C16_Witness ==
    /\ attempt = 2
    /\ Len(tokenReqs) = 1
    /\ Len(opened) = 1
    /\ tokenReqs[1].code_verifier = code_verifier
    /\ opened[1].code_challenge = S256(code_verifier)
    /\ verifiers[1] # code_verifier

-----------------------------------------------------------------------------
(* C17 *)

\* Response r is one of the boundary outcomes: ALLOW (200), DENY (401 with
\* an empty body) or MISCONFIGURED (500 with body "misconfigured").
BoundaryOutcome(r) ==
    /\ ~r.raised
    /\ \/ r.status = 200
       \/ r.status = 401 /\ r.body = ""
       \/ r = Misconfigured

\* C17: every gate or broker invocation ends in exactly one of ALLOW, DENY or
\* MISCONFIGURED, whatever the authorization server answers; no exception
\* leaves the handler.
C17_BoundaryOutcomesOnly ==
    \A i \in Invs : pc[i] = "done" => BoundaryOutcome(resp[i])

-----------------------------------------------------------------------------
(* C18 *)

\* Concurrent invocations.  The server runs every request in a coroutine of
\* its own, and a coroutine gives way at each await of an outbound call, so
\* the steps of different invocations interleave freely.  Each invocation
\* gets an inbound token of its own, and the authorization servers answer it
\* with a subject and with tokens of its own, so that a value that crosses
\* from one invocation to another can be told.
OwnToken(i) == <<"t">> \o Decimal(i)
OwnSubject(i) == <<"u">> \o Decimal(i)
OwnHopA(i) == <<"a">> \o Decimal(i)
OwnHopB(i) == <<"b">> \o Decimal(i)

ConcHeaders(i) == { <<>>, S_Bearer_sp \o OwnToken(i) }

ConcIntrospectReplies(i) ==
    { Raised,
      Reply(200, JObj([active |-> JBool(FALSE)])),
      Reply(200, JObj([active |-> JBool(TRUE), sub |-> JStr(OwnSubject(i))])) }

ConcHopAReplies(i) ==
    { Raised,
      Reply(400, JObj([error |-> JStr(InvalidGrant)])),
      Reply(200, JObj([access_token |-> JStr(OwnHopA(i))])) }

ConcHopBReplies(i) ==
    { Raised,
      Reply(400, JObj([error |-> JStr(InvalidGrant)])),
      Reply(200, JObj([access_token |-> JStr(OwnHopB(i))])) }

InitConc == InitAuthz /\ cfg = FullCfg /\ InitFlow

NextConc ==
    \E i \in Invs :
        \/ CheckOn(i, ConcHeaders(i))
        \/ CheckReplyOn(i, ConcIntrospectReplies(i))
        \/ BrokerOn(i, ConcHeaders(i))
        \/ BrokerHopAOn(i, ConcHopAReplies(i))
        \/ BrokerHopBOn(i, ConcHopBReplies(i))
        \/ Return(i)

SpecConc == InitConc /\ [][NextConc]_vars

\* What the handler of invocation i returns, computed from the inbound header
\* of i and from the replies to the outbound calls of i alone.
OwnDecision(i) ==
    IF kind[i] = "gate"
    THEN IF rcvd[i] = <<>> THEN CheckEntry(auth[i]).resp
         ELSE GateDecide(rcvd[i][1])
    ELSE IF rcvd[i] = <<>> THEN BrokerEntry(auth[i]).resp
    ELSE IF Len(rcvd[i]) = 1 THEN BrokerAfterHopA(rcvd[i][1]).resp
    ELSE BrokerAfterHopB(OwnToken(i), JStr(OwnHopA(i)), rcvd[i][2])

\* C18: in any interleaving of concurrent gate and broker invocations, the
\* decision and the outbound headers of an invocation depend only on its own
\* inbound token and on the replies to its own outbound calls; no verdict, Hop
\* A token or Hop B token of one invocation is used or returned by another.
C18_Isolated ==
    \A i \in Invs :
        /\ token[i] \in {NoValue, OwnToken(i)}
        /\ jwt_for_b[i] \in {JNull, JStr(OwnHopA(i))}
        /\ \A k \in 1 .. Len(sent[i]) :
              sent[i][k] \in { IntrospectRequest(OwnToken(i)),
                               HopARequest(OwnToken(i)),
                               HopBRequest(JStr(OwnHopA(i))) }
        /\ pc[i] = "done" =>
              /\ resp[i] = OwnDecision(i)
              /\ (kind[i] = "gate" /\ resp[i].status = 200)
                    => HeaderValue(resp[i], "X-Subject") = OwnSubject(i)
              /\ (kind[i] = "broker" /\ resp[i].status = 200)
                    => HeaderValue(resp[i], "Authorization")
                         = S_Bearer_sp \o OwnHopB(i)

\* Two broker invocations are in flight at once, each waiting for Hop B with
\* its own Hop A token.
C18_Witness ==
    \E i, j \in Invs :
        /\ i # j
        /\ pc[i] = "hopB" /\ pc[j] = "hopB"
        /\ jwt_for_b[i] = JStr(OwnHopA(i))
        /\ jwt_for_b[j] = JStr(OwnHopA(j))
        /\ sent[i][2] = HopBRequest(JStr(OwnHopA(i)))
        /\ sent[j][2] = HopBRequest(JStr(OwnHopA(j)))

-----------------------------------------------------------------------------
(* C19 *)

\* The outbound requests of invocation i that went to endpoint e.
RequestsTo(i, e) == {k \in 1 .. Len(sent[i]) : sent[i][k].to = e}

\* C19: the gate and the broker never retry an outbound call: a gate
\* invocation sends at most one introspection request, a broker invocation
\* at most one Hop A and at most one Hop B request, and a call that times out
\* (raises) ends the invocation with DENY (401) without a further request.
C19_NoRetry ==
    \A i \in Invs :
        /\ \A e \in {"introspect", "hopA", "hopB"} :
              Cardinality(RequestsTo(i, e)) <= 1
        /\ kind[i] = "gate" => RequestsTo(i, "hopA") \cup RequestsTo(i, "hopB") = {}
        /\ kind[i] = "broker" => RequestsTo(i, "introspect") = {}
        /\ Len(rcvd[i]) <= Len(sent[i])
        /\ \A k \in 1 .. Len(rcvd[i]) :
              rcvd[i][k] = Raised
                 => /\ pc[i] = "done"
                    /\ resp[i] = Deny
                    /\ Len(sent[i]) = k

\* A broker invocation whose Hop B call timed out has ended with DENY after
\* one Hop A and one Hop B request.
C19_Witness ==
    \E i \in Invs :
        /\ BrokerDone(i)
        /\ Len(sent[i]) = 2
        /\ sent[i][1].to = "hopA"
        /\ sent[i][2].to = "hopB"
        /\ Len(rcvd[i]) = 2
        /\ rcvd[i][2] = Raised
        /\ resp[i] = Deny

-----------------------------------------------------------------------------
(* C20 *)

\* The last login_flow call ended FAILED by timeout: it returned False
\* without a token request.
TimedOut == fpc = "returned" /\ result = "False" /\ tokenReqs = <<>>

\* C20: once login_flow has ended FAILED by timeout, the callback listener of
\* that attempt can no longer receive the redirect: a callback that arrives
\* after the timeout does not set auth_code.
C20_NoCodeAfterTimeout ==
    TimedOut => ~HaveCode(auth_code)

=============================================================================
